---- MODULE Spec2Model ----
(***************************************************************************)
(* Model of the bounty bot (src/bot.py): the persistence store, the        *)
(* listing source client with its retry decorator, the poll loop with its  *)
(* dedup and keyword fanout, and the slash commands that write the store.  *)
(***************************************************************************)
EXTENDS Integers, Sequences, FiniteSets, TLC

(* ---------------------------------------------------------------------- *)
(* Bounds of the model                                                     *)
(* ---------------------------------------------------------------------- *)
\* longest listing sequence one fetch returns
MaxBatch == 2
\* send calls recorded per (listing id, guild) before the log saturates
MaxSends == 2
\* ready events (the first connection and reconnections) in one run of the process
MaxReady == 2
\* command invocations that can be in progress at the same time
MaxCmds == 2
\* longest location string given to matches_location (keywords are one shorter)
MaxLen == 3

(* ---------------------------------------------------------------------- *)
(* Program constants                                                       *)
(* ---------------------------------------------------------------------- *)
\* Config.max_retries
max_retries == 3
\* wait_exponential(multiplier=1, min=2, max=10)
wait_multiplier == 1
wait_min == 2
wait_max == 10

(* ---------------------------------------------------------------------- *)
(* Strings are sequences of one-character strings                          *)
(* ---------------------------------------------------------------------- *)
Remote == <<"R", "e", "m", "o", "t", "e">>
Berlin == <<"B", "e", "r", "l", "i", "n">>
KwREM == <<"R", "E", "M">>
KwE == <<"e">>

UpperLetters ==
    <<"A", "B", "C", "D", "E", "F", "G", "H", "I", "J", "K", "L", "M",
      "N", "O", "P", "Q", "R", "S", "T", "U", "V", "W", "X", "Y", "Z">>
LowerLetters ==
    <<"a", "b", "c", "d", "e", "f", "g", "h", "i", "j", "k", "l", "m",
      "n", "o", "p", "q", "r", "s", "t", "u", "v", "w", "x", "y", "z">>

\* the lower-case letter of every upper-case letter
ToLower ==
    [c \in {UpperLetters[i] : i \in 1..26} |->
        LowerLetters[CHOOSE i \in 1..26 : UpperLetters[i] = c]]

\* str.lower() on one ASCII character
LowerChar(c) == IF c \in DOMAIN ToLower THEN ToLower[c] ELSE c

Lower(s) == [i \in 1..Len(s) |-> LowerChar(s[i])]

\* Python's `needle in hay` on strings
Contains(hay, needle) ==
    \E i \in 0..(Len(hay) - Len(needle)) :
        SubSeq(hay, i + 1, i + Len(needle)) = needle

\* mutant: the comparison keeps the case
matches_location_CaseSensitive(location, keyword) ==
    Contains(location, keyword)

matches_location(location, keyword) ==
    Contains(Lower(location), Lower(keyword))

(* ---------------------------------------------------------------------- *)
(* Universe of inputs                                                      *)
(* ---------------------------------------------------------------------- *)
Guilds == {"g1", "g2"}
Keywords == {KwREM, KwE}

\* the text channel a guild's /setchannel can name
ChannelOf(g) == IF g = "g1" THEN "c1" ELSE "c2"

\* listings the source can return: dicts, a missing key is a missing field
Listings ==
    { [id |-> "a"],
      [id |-> "b", location |-> Berlin],
      [location |-> Remote] }

\* Python's None as the value of a field, kept apart from every string
PyNone == "<None>"

\* listings that carry no id: the field is null, empty, or absent
ListingsNoId ==
    { [id |-> PyNone, location |-> Berlin],
      [id |-> ""],
      [location |-> Remote] }

AllListings == Listings \cup ListingsNoId

\* listings that carry the display fields: texts that hold the keywords, a list
\* of skills, and a description the source sent as JSON null
ListingsFields ==
    { [id |-> "a", title |-> "Remote e-commerce", description |-> "remote"],
      [id |-> "b", location |-> Berlin, title |-> "Remote",
       skills |-> <<"remote">>],
      [id |-> "b", location |-> Berlin, description |-> PyNone] }

\* dict.get(key, default)
Get(d, key, default) == IF key \in DOMAIN d THEN d[key] ELSE default

\* str() of an id value
Str(v) == IF v = PyNone THEN "None" ELSE v

bounty_id_of(bounty) == Str(Get(bounty, "id", ""))
location_of(bounty) == Get(bounty, "location", Remote)

IDs == {bounty_id_of(b) : b \in AllListings} \ {""}

\* value of `bounty` while no process_bounty call is running
NoBounty == [none |-> TRUE]

\* what one HTTP attempt can produce; len is the length of the listing sequence
\* in a decodable 200 body (its elements are drawn as the for loop takes them)
Responses ==
    {[kind |-> "200", len |-> n] : n \in 0..MaxBatch}
    \cup {[kind |-> k, len |-> 0] :
            k \in {"200_content_type", "200_bad_json", "401", "429", "500",
                   "ClientError", "TimeoutError"}}

SendOutcomes == {"ok", "NotFound", "Forbidden", "OtherError"}

(* ---------------------------------------------------------------------- *)
(* State                                                                   *)
(* ---------------------------------------------------------------------- *)
VARIABLES
    guild_settings,      \* table guild_settings: rows <<guild_id, channel_id>> in rowid order
    subscriptions,       \* table subscriptions: rows per <<guild_id, keyword>>
    processed_bounties,  \* table processed_bounties: rows per bounty id
    pc,                  \* position of the poll task
    attempt,             \* attempt_number of the retry state (kept by RetryError, gone on return)
    waits,               \* backoff waits slept under that retry state
    pending,             \* listings of the fetched batch the for loop has not taken yet
    bounty,              \* argument of the running process_bounty call, or NoBounty
    guilds,              \* rows returned by get_all_guilds for the current listing
    pollError,           \* exception caught by poll_bounties in this cycle, or "none"
    fetchResult,         \* outcome of this cycle's fetch: "none", "ok", "error"
    sendLog,             \* [id, guild] -> channels send_bounty_notification was called with
    lastEval,            \* <<guild, outcome>> of the latest guild evaluation of this cycle
    gi,                  \* index in guilds of the row the fanout loop is at
    lastResp,            \* kind of the response of the latest HTTP attempt, or "none"
    atMark,              \* <<id, guilds with a matching keyword>> at the latest mark of this cycle
    lastExam,            \* <<result, id>> of the latest process_bounty dedup step of this cycle
    finished,            \* ids whose marking process_bounty call has ended
    call,                \* a function applied on its own: [fn, arguments], or NoCall
    result,              \* <<value>> once that call has returned, else <<>>
    phase,               \* where the process is: "config", "login", "setup_hook",
                         \* "running", "closing", "closed", "exited"
    token,               \* os.getenv("DISCORD_TOKEN")
    startupError,        \* the exception that ended the start of the process
    exitStatus,          \* exit status of the process, -1 while it runs
    isReady,             \* the client's ready event is set
    readies,             \* ready events dispatched so far
    syncing,             \* on_ready handlers waiting in tree.sync()
    poller_task,         \* "None", or "Task" once on_ready has created a poll task
    alive,               \* poll tasks created and not finished
    bornClosing,         \* the newest poll task was created after close was called
    dbOpen,              \* the aiosqlite connection is open
    interactions         \* the command invocations in progress, one per slot

vars == <<guild_settings, subscriptions, processed_bounties, pc, attempt, waits,
          pending, bounty, guilds, gi, lastResp, pollError, fetchResult, sendLog,
          lastEval, atMark, lastExam, finished, call, result, phase, token,
          startupError, exitStatus, isReady, readies, syncing, poller_task, alive,
          bornClosing, dbOpen, interactions>>

\* the process and the client: start, ready events, the poll task handle, close
lifeVars == <<phase, token, startupError, exitStatus, isReady, readies, syncing,
              poller_task, alive, bornClosing, dbOpen>>

\* state outside the poll task, the store, the send log and single calls
otherVars == <<lifeVars, interactions>>

\* state outside the poll task, the store and the send log
auxVars == <<call, result, otherVars>>

storeVars == <<guild_settings, subscriptions, processed_bounties>>
fetchVars == <<attempt, waits, lastResp, fetchResult>>
fanoutVars == <<guilds, gi, lastEval, atMark, lastExam>>
pollVars == <<pc, attempt, waits, pending, bounty, guilds, gi, lastResp, pollError,
              fetchResult, lastEval, atMark, lastExam>>
histVars == <<sendLog, finished>>

NoCall == [fn |-> "none"]

\* the process has started without error, the client is ready, on_ready has
\* returned and its poll task exists
LifeRunning ==
    /\ phase = "running"
    /\ token = "token"
    /\ startupError = "none"
    /\ exitStatus = -1
    /\ isReady = TRUE
    /\ readies = 1
    /\ syncing = 0
    /\ poller_task = "Task"
    /\ alive = 1
    /\ bornClosing = FALSE
    /\ dbOpen = TRUE

\* a slot with no command invocation in it
Idle == [op |-> "none"]

OthersIdle ==
    /\ LifeRunning
    /\ interactions = [i \in 1..MaxCmds |-> Idle]

\* nothing outside the poll task, the store and the send log is going on
AuxIdle ==
    /\ call = NoCall
    /\ result = <<>>
    /\ OthersIdle

\* the bot after setup_hook, its poll task created: empty tables, nothing fetched
CoreInitAt(store, at) ==
    /\ guild_settings = store[1]
    /\ subscriptions = store[2]
    /\ processed_bounties = store[3]
    /\ pc = at
    /\ attempt = 1
    /\ waits = <<>>
    /\ pending = 0
    /\ bounty = NoBounty
    /\ guilds = <<>>
    /\ pollError = "none"
    /\ fetchResult = "none"
    /\ sendLog = [p \in IDs \X Guilds |-> <<>>]
    /\ lastEval = <<"", "none">>
    /\ gi = 1
    /\ lastResp = "none"
    /\ atMark = <<"", {}>>
    /\ lastExam = <<"none", "">>
    /\ finished = {}

\* the tables as _create_tables makes them in a new database file
EmptyStore ==
    <<<<>>, [sp \in Guilds \X Keywords |-> 0], [id \in IDs |-> 0]>>

CoreInit == CoreInitAt(EmptyStore, "fetch")

Init == CoreInit /\ AuxIdle

(* ---------------------------------------------------------------------- *)
(* Database                                                                *)
(* ---------------------------------------------------------------------- *)
Max(a, b) == IF a >= b THEN a ELSE b
Min(a, b) == IF a <= b THEN a ELSE b

\* rows of a sequence that satisfy a test, in order
RECURSIVE RowsWithout(_, _)
RowsWithout(rows, g) ==
    IF rows = <<>> THEN <<>>
    ELSE IF Head(rows)[1] = g THEN RowsWithout(Tail(rows), g)
    ELSE <<Head(rows)>> \o RowsWithout(Tail(rows), g)

\* INSERT OR REPLACE INTO guild_settings: the old row goes, the new one is appended
set_channel(rows, g, c) == Append(RowsWithout(rows, g), <<g, c>>)

\* SELECT channel_id FROM guild_settings WHERE guild_id = ?  ("None" when no row)
get_channel(rows, g) ==
    IF \E i \in 1..Len(rows) : rows[i][1] = g
    THEN (CHOOSE r \in {rows[i] : i \in 1..Len(rows)} : r[1] = g)[2]
    ELSE "None"

\* SELECT guild_id, channel_id FROM guild_settings
get_all_guilds(rows) == rows

\* mutant: the table has no UNIQUE(guild_id, keyword) constraint
add_subscription_added_Always(subs, g, k) == TRUE

\* INSERT INTO subscriptions; IntegrityError on the UNIQUE(guild_id, keyword) pair
add_subscription_added(subs, g, k) == subs[<<g, k>>] = 0
add_subscription(subs, g, k) == [subs EXCEPT ![<<g, k>>] = @ + 1]

\* DELETE FROM subscriptions WHERE guild_id = ? AND keyword = ?
remove_subscription(subs, g, k) == [subs EXCEPT ![<<g, k>>] = 0]

\* SELECT keyword FROM subscriptions WHERE guild_id = ?
get_subscriptions(subs, g) == {k \in Keywords : subs[<<g, k>>] > 0}

\* mutant: the dedup check never finds a record
is_bounty_processed_Never(proc, id) == FALSE

\* SELECT 1 FROM processed_bounties WHERE bounty_id = ?
is_bounty_processed(proc, id) == proc[id] > 0

\* mutant: the insert is lost
mark_bounty_processed_Lost(proc, id) == proc

\* INSERT OR IGNORE INTO processed_bounties: a row with the same primary key
\* makes the insert a no-op
mark_bounty_processed(proc, id) ==
    IF proc[id] = 0 THEN [proc EXCEPT ![id] = 1] ELSE proc

(* ---------------------------------------------------------------------- *)
(* BountyAPI.fetch_bounties and its retry decorator                        *)
(* ---------------------------------------------------------------------- *)
\* exception one HTTP attempt raises for a response, "none" when it returns
raised(r) ==
    CASE r.kind = "200" -> "none"
      [] r.kind = "200_content_type" -> "ClientError"   \* resp.json(): ContentTypeError
      [] r.kind = "200_bad_json" -> "ValueError"        \* resp.json(): JSONDecodeError
      [] r.kind = "401" -> "none"
      [] r.kind = "429" -> "ClientError"
      [] r.kind = "ClientError" -> "ClientError"
      [] r.kind = "TimeoutError" -> "TimeoutError"
      [] OTHER -> "none"

\* value one HTTP attempt returns when it raises nothing
returned(r) == IF r.kind = "200" THEN r.len ELSE 0

retry_if_exception_type(e) == e \in {"ClientError", "TimeoutError"}

\* mutant: one attempt too many
stop_after_attempt_Late(n) == n > max_retries

stop_after_attempt(n) == n >= max_retries

\* wait_exponential.__call__: multiplier * 2^(attempt_number - 1), clamped to [min, max]
wait_exponential(n) ==
    Max(Max(0, wait_min), Min(wait_multiplier * (2 ^ (n - 1)), wait_max))

(* ---------------------------------------------------------------------- *)
(* BountyBot.poll_bounties                                                 *)
(* ---------------------------------------------------------------------- *)
\* mutant: the exception ends the poll task
poll_except_Crash(err) ==
    /\ pollError' = err
    /\ pc' = "crashed"

\* except Exception in poll_bounties: log, fall through to the sleep
poll_except(err) ==
    /\ pollError' = err
    /\ pc' = "sleep"

\* process_bounty returned: the for loop takes the next listing, or the cycle sleeps
next_bounty(left) ==
    /\ pending' = left
    /\ bounty' = NoBounty
    /\ pc' = IF left = 0 THEN "sleep" ELSE "process"
    /\ pollError' = pollError

\* process_bounty raised: the rest of the batch is dropped
abort_batch(left, err) ==
    /\ pending' = left
    /\ bounty' = NoBounty
    /\ poll_except(err)

\* one HTTP attempt of fetch_bounties under the retry decorator
fetch_bounties(r) ==
    /\ pc = "fetch"
    /\ lastResp' = r.kind
    /\ LET e == raised(r) IN
        IF e = "none"
        THEN /\ pending' = returned(r)
             /\ fetchResult' = "ok"
             /\ pc' = IF returned(r) = 0 THEN "sleep" ELSE "process"
             /\ attempt' = 1
             /\ waits' = <<>>
             /\ UNCHANGED pollError
        ELSE IF retry_if_exception_type(e) /\ ~stop_after_attempt(attempt)
        THEN /\ pc' = "backoff"
             /\ waits' = Append(waits, wait_exponential(attempt))
             /\ UNCHANGED <<attempt, pending, fetchResult, pollError>>
        ELSE /\ fetchResult' = "error"
             /\ poll_except(IF retry_if_exception_type(e) THEN "RetryError" ELSE e)
             /\ UNCHANGED <<attempt, waits, pending>>
    /\ UNCHANGED <<storeVars, bounty, fanoutVars, histVars, auxVars>>

\* the decorator's sleep between two attempts
retry_sleep ==
    /\ pc = "backoff"
    /\ pc' = "fetch"
    /\ attempt' = attempt + 1
    /\ UNCHANGED <<storeVars, waits, lastResp, fetchResult, pending, bounty, pollError,
                   fanoutVars, histVars, auxVars>>

\* Client.is_closed()
is_closed == phase \in {"closed", "exited"}

\* await asyncio.sleep(config.poll_interval), then the next iteration of the loop
poll_sleep ==
    /\ pc = "sleep"
    /\ ~is_closed
    /\ pc' = "fetch"
    /\ attempt' = 1
    /\ waits' = <<>>
    /\ lastResp' = "none"
    /\ fetchResult' = "none"
    /\ pollError' = "none"
    /\ pending' = 0
    /\ atMark' = <<"", {}>>
    /\ lastExam' = <<"none", "">>
    /\ lastEval' = <<"", "none">>
    /\ UNCHANGED <<storeVars, bounty, guilds, gi, histVars, auxVars>>

(* ---------------------------------------------------------------------- *)
(* BountyBot.process_bounty                                                *)
(* ---------------------------------------------------------------------- *)
\* mutant: every keyword has to match
matched_Every(location, keywords) ==
    \A keyword \in keywords : matches_location(location, keyword)

\* lines 342-346: does any keyword match the location
matched(location, keywords) ==
    \E keyword \in keywords : matches_location(location, keyword)

StoreOutcomes == {"ok", "error"}
MarkOutcomes == {"ok", "execute_error", "commit_error"}

\* a closed connection fails every operation
StoreOutcomesNow == IF dbOpen THEN StoreOutcomes ELSE {"error"}
MarkOutcomesNow == IF dbOpen THEN MarkOutcomes ELSE {"execute_error"}

\* lines 319-330 for the listing b the for loop takes: id test, dedup check, mark
process_bounty(b, checked, marked) ==
    /\ pc = "process"
    /\ LET bounty_id == bounty_id_of(b)
           left == pending - 1
       IN
        IF bounty_id = ""
        THEN /\ next_bounty(left)
             /\ lastExam' = <<"no_id", "">>
             /\ UNCHANGED <<processed_bounties, atMark, finished>>
        ELSE IF checked = "error"
        THEN /\ abort_batch(left, "StoreError:is_bounty_processed")
             /\ lastExam' = <<"error", bounty_id>>
             /\ UNCHANGED <<processed_bounties, atMark, finished>>
        ELSE IF is_bounty_processed(processed_bounties, bounty_id)
        THEN /\ next_bounty(left)
             /\ lastExam' = <<"skipped", bounty_id>>
             /\ UNCHANGED <<processed_bounties, atMark, finished>>
        ELSE IF marked = "execute_error"
        THEN /\ abort_batch(left, "StoreError:mark_bounty_processed")
             /\ lastExam' = <<"error", bounty_id>>
             /\ UNCHANGED <<processed_bounties, atMark, finished>>
        ELSE /\ processed_bounties' = mark_bounty_processed(processed_bounties, bounty_id)
             /\ atMark' = <<bounty_id, {g \in Guilds :
                    matched(location_of(b), get_subscriptions(subscriptions, g))}>>
             /\ IF marked = "commit_error"
                THEN /\ abort_batch(left, "StoreError:mark_bounty_processed")
                     /\ lastExam' = <<"error", bounty_id>>
                     /\ finished' = finished \cup {bounty_id}
                ELSE /\ pc' = "guilds"
                     /\ pending' = left
                     /\ bounty' = b
                     /\ lastExam' = <<"marked", bounty_id>>
                     /\ UNCHANGED <<pollError, finished>>
    /\ UNCHANGED <<guild_settings, subscriptions, fetchVars, guilds, gi, lastEval,
                   sendLog, auxVars>>

\* line 335: the snapshot of guild rows for the current listing
fanout_snapshot(outcome) ==
    /\ pc = "guilds"
    /\ LET bounty_id == bounty_id_of(bounty) IN
        IF outcome = "error"
        THEN /\ abort_batch(pending, "StoreError:get_all_guilds")
             /\ finished' = finished \cup {bounty_id}
             /\ UNCHANGED <<guilds, gi, lastEval>>
        ELSE IF get_all_guilds(guild_settings) = <<>>
        THEN /\ next_bounty(pending)
             /\ finished' = finished \cup {bounty_id}
             /\ UNCHANGED <<guilds, gi, lastEval>>
        ELSE /\ guilds' = get_all_guilds(guild_settings)
             /\ gi' = 1
             /\ lastEval' = <<"", "none">>
             /\ pc' = "fanout"
             /\ UNCHANGED <<pending, bounty, pollError, finished>>
    /\ UNCHANGED <<storeVars, fetchVars, sendLog, atMark, lastExam, auxVars>>

\* record one call of send_bounty_notification(channel_id, bounty, location)
logged(log, id, g, c) ==
    IF Len(log[<<id, g>>]) < MaxSends
    THEN [log EXCEPT ![<<id, g>>] = Append(@, c)]
    ELSE log

\* the for loop over guilds moves on; after the last row process_bounty returns
next_guild ==
    IF gi < Len(guilds)
    THEN /\ gi' = gi + 1
         /\ UNCHANGED <<pc, pending, bounty, pollError, guilds, finished>>
    ELSE /\ next_bounty(pending)
         /\ guilds' = <<>>
         /\ gi' = 1
         /\ finished' = finished \cup {bounty_id_of(bounty)}

\* mutant: the exception of one guild leaves process_bounty
guild_except_Raise ==
    /\ abort_batch(pending, "StoreError:get_subscriptions")
    /\ guilds' = <<>>
    /\ gi' = 1
    /\ finished' = finished \cup {bounty_id_of(bounty)}

\* lines 351-352, except Exception inside the for loop: log, go on with the next row
guild_except == next_guild

\* send_bounty_notification: every outcome of the sink is swallowed (lines 360-373)
send_result(sendOutcome) == IF sendOutcome = "ok" THEN "sent" ELSE "send_failed"

\* bounty.get("description", "No description provided")
NoDescription == "No description provided"

\* create_bounty_embed reads the display fields; len(description) raises a
\* TypeError when the description is None (lines 377-385)
create_bounty_embed(b) ==
    LET description == Get(b, "description", NoDescription)
    IN IF description = PyNone THEN "TypeError" ELSE "embed"

\* send_bounty_notification: an unknown channel returns before the embed is
\* built; an exception of create_bounty_embed is caught and logged like one of
\* channel.send, and nothing is sent (lines 360-373)
send_bounty_notification(b, sendOutcome) ==
    IF sendOutcome = "NotFound" THEN send_result(sendOutcome)
    ELSE IF create_bounty_embed(b) = "TypeError" THEN "render_failed"
    ELSE send_result(sendOutcome)

\* lines 337-352 for one row of the snapshot
process_guild(subsOutcome, sendOutcome) ==
    /\ pc = "fanout"
    /\ LET guild_id == guilds[gi][1]
           channel_id == guilds[gi][2]
           location == location_of(bounty)
       IN
        IF subsOutcome = "error"
        THEN /\ sendLog' = sendLog
             /\ lastEval' = <<guild_id, "subs_error">>
             /\ guild_except
        ELSE IF matched(location, get_subscriptions(subscriptions, guild_id))
        THEN /\ sendLog' = logged(sendLog, bounty_id_of(bounty), guild_id, channel_id)
             /\ lastEval' = <<guild_id, send_bounty_notification(bounty, sendOutcome)>>
             /\ next_guild
        ELSE /\ sendLog' = sendLog
             /\ lastEval' = <<guild_id, "no_match">>
             /\ next_guild
    /\ UNCHANGED <<storeVars, fetchVars, atMark, lastExam, auxVars>>

(* ---------------------------------------------------------------------- *)
(* Slash commands                                                          *)
(* ---------------------------------------------------------------------- *)
\* mutant: the rows the fanout iterates are a live view of guild_settings
setchannel_Live(g, c) ==
    /\ guild_settings' = set_channel(guild_settings, g, c)
    /\ guilds' = IF pc = "fanout" THEN get_all_guilds(guild_settings') ELSE guilds
    /\ gi' = IF pc = "fanout" /\ gi > Len(guilds') THEN Len(guilds') ELSE gi
    /\ UNCHANGED <<subscriptions, processed_bounties, pc, fetchVars, pending,
                   bounty, pollError, lastEval, atMark, lastExam, histVars,
                   auxVars>>

setchannel(g, c) ==
    /\ guild_settings' = set_channel(guild_settings, g, c)
    /\ UNCHANGED <<subscriptions, processed_bounties, pollVars, histVars, auxVars>>

subscribe(g, k) ==
    /\ IF get_channel(guild_settings, g) = "None"
       THEN subscriptions' = subscriptions
       ELSE IF add_subscription_added(subscriptions, g, k)
       THEN subscriptions' = add_subscription(subscriptions, g, k)
       ELSE subscriptions' = subscriptions
    /\ UNCHANGED <<guild_settings, processed_bounties, pollVars, histVars, auxVars>>

\* mutant: unsubscribing also forgets which listings were processed
unsubscribe_Purge(g, k) ==
    /\ subscriptions' = remove_subscription(subscriptions, g, k)
    /\ processed_bounties' = [id \in IDs |-> 0]
    /\ UNCHANGED <<guild_settings, pollVars, histVars, auxVars>>

unsubscribe(g, k) ==
    /\ subscriptions' = remove_subscription(subscriptions, g, k)
    /\ UNCHANGED <<guild_settings, processed_bounties, pollVars, histVars, auxVars>>

(* ---------------------------------------------------------------------- *)
(* Specification                                                           *)
(* ---------------------------------------------------------------------- *)
\* the steps of the poll task when the source returns listings of the set L
PollTaskOn(L) ==
    \/ \E r \in Responses : fetch_bounties(r)
    \/ retry_sleep
    \/ poll_sleep
    \/ \E b \in L, checked \in StoreOutcomesNow, marked \in MarkOutcomesNow :
          process_bounty(b, checked, marked)
    \/ \E outcome \in StoreOutcomesNow : fanout_snapshot(outcome)
    \/ \E subsOutcome \in StoreOutcomesNow, sendOutcome \in SendOutcomes :
          process_guild(subsOutcome, sendOutcome)

PollTask == PollTaskOn(Listings)

Commands ==
    \/ \E g \in Guilds : setchannel(g, ChannelOf(g))
    \/ \E g \in Guilds, k \in Keywords : subscribe(g, k)
    \/ \E g \in Guilds, k \in Keywords : unsubscribe(g, k)

Next == PollTask \/ Commands

Spec == Init /\ [][Next]_vars

\* the same bot polling a source whose listings carry no id
NextNoId == PollTaskOn(ListingsNoId) \/ Commands

SpecNoId == Init /\ [][NextNoId]_vars

TypeOK ==
    /\ pc \in {"none", "start", "fetch", "backoff", "process", "guilds", "fanout",
              "sleep", "cancelled", "done"}
    /\ attempt \in 1..max_retries
    /\ processed_bounties \in [IDs -> Nat]
    /\ subscriptions \in [Guilds \X Keywords -> Nat]
    /\ pending \in 0..MaxBatch
    /\ bounty \in AllListings \cup ListingsFields \cup {NoBounty}

(* ---------------------------------------------------------------------- *)
(* matches_location applied on its own                                     *)
(* ---------------------------------------------------------------------- *)
\* every variable of the poll task, the store and the send log
coreVars ==
    <<guild_settings, subscriptions, processed_bounties, pc, attempt, waits,
      pending, bounty, guilds, gi, lastResp, pollError, fetchResult, sendLog,
      lastEval, atMark, lastExam, finished>>

\* the characters of the short strings: a letter in both cases, a second
\* letter, and a blank
Chars == {"a", "A", "b", " "}

StringsUpTo(n) == UNION {[1..k -> Chars] : k \in 0..n}

SanFranciscoCA ==
    <<"S", "a", "n", " ", "F", "r", "a", "n", "c", "i", "s", "c", "o", ",", " ",
      "C", "A">>

KwSanFrancisco ==
    <<"s", "a", "n", " ", "f", "r", "a", "n", "c", "i", "s", "c", "o">>

\* the (location, keyword) pairs matches_location is applied to
MatchInputs ==
    (StringsUpTo(MaxLen) \X StringsUpTo(MaxLen - 1))
        \cup {<<SanFranciscoCA, KwSanFrancisco>>, <<Remote, Berlin>>}

InitMatch ==
    /\ CoreInit
    /\ OthersIdle
    /\ \E in \in MatchInputs :
          call = [fn |-> "matches_location", location |-> in[1], keyword |-> in[2]]
    /\ result = <<>>

call_matches_location ==
    /\ call.fn = "matches_location"
    /\ result = <<>>
    /\ result' = <<matches_location(call.location, call.keyword)>>
    /\ UNCHANGED <<coreVars, otherVars, call>>

NextMatch == call_matches_location

SpecMatch == InitMatch /\ [][NextMatch]_vars

(* ---------------------------------------------------------------------- *)
(* The handling of a decoded 200 body in fetch_bounties, applied on its own *)
(* ---------------------------------------------------------------------- *)
\* decoded JSON values: lists of listing ids, null, a string, and objects
JsonList(items) == [type |-> "list", items |-> items]
JsonNull == [type |-> "null"]
JsonStr == [type |-> "str"]
JsonDict(entries) == [type |-> "dict", entries |-> entries]

\* the values an object of the body holds under a key
MemberValues == {JsonList(<<>>), JsonList(<<"a">>), JsonList(<<"b">>), JsonNull, JsonStr}

\* the keys fetch_bounties probes, in its order, and one it does not know
ProbeKeys == <<"bounties", "data", "results", "items">>
BodyKeys == {"bounties", "data", "results", "items", "meta"}

\* what resp.json() can hand back for a 200 response
Bodies ==
    MemberValues
        \cup {JsonDict(e) : e \in UNION {[ks -> MemberValues] : ks \in SUBSET BodyKeys}}

RECURSIVE probe(_, _)
\* for key in [...]: if key in data: return data[key]; after the loop return []
probe(data, i) ==
    IF i > Len(ProbeKeys) THEN JsonList(<<>>)
    ELSE IF ProbeKeys[i] \in DOMAIN data.entries THEN data.entries[ProbeKeys[i]]
    ELSE probe(data, i + 1)

\* the value fetch_bounties returns for the decoded body data
normalize(data) ==
    IF data.type = "list" THEN data
    ELSE IF data.type = "dict" THEN probe(data, 1)
    ELSE JsonList(<<>>)

InitNormalize ==
    /\ CoreInit
    /\ OthersIdle
    /\ \E data \in Bodies : call = [fn |-> "normalize", data |-> data]
    /\ result = <<>>

call_normalize ==
    /\ call.fn = "normalize"
    /\ result = <<>>
    /\ result' = <<normalize(call.data)>>
    /\ UNCHANGED <<coreVars, otherVars, call>>

NextNormalize == call_normalize

SpecNormalize == InitNormalize /\ [][NextNormalize]_vars

(* ---------------------------------------------------------------------- *)
(* The process: start, ready events, on_ready, close                       *)
(* ---------------------------------------------------------------------- *)
\* the tables a database file of an earlier run can hold: both guilds have a
\* channel and the keyword "e"
PersistedStore ==
    << <<<<"g1", ChannelOf("g1")>>, <<"g2", ChannelOf("g2")>>>>,
       [sp \in Guilds \X Keywords |-> IF sp[2] = KwE THEN 1 ELSE 0],
       [id \in IDs |-> 0] >>

\* DISCORD_TOKEN: not set, empty, or set
EnvTokens == {PyNone, "", "token"}

\* the interpreter starts to import the module
InitLife ==
    /\ CoreInitAt(PersistedStore, "none")
    /\ call = NoCall
    /\ result = <<>>
    /\ phase = "config"
    /\ token \in EnvTokens
    /\ startupError = "none"
    /\ exitStatus = -1
    /\ isReady = FALSE
    /\ readies = 0
    /\ syncing = 0
    /\ poller_task = "None"
    /\ alive = 0
    /\ bornClosing = FALSE
    /\ dbOpen = FALSE
    /\ interactions = [i \in 1..MaxCmds |-> Idle]

\* an exception leaves the module body: traceback, exit status 1
uncaught(err) ==
    /\ phase' = "exited"
    /\ startupError' = err
    /\ exitStatus' = 1

\* lines 565-566: the exception is logged and the script runs to its end
main_except(err) ==
    /\ phase' = "exited"
    /\ startupError' = err
    /\ exitStatus' = 0

\* line 59: config = Config.from_env()
from_env ==
    /\ phase = "config"
    /\ IF token \in {PyNone, ""}
       THEN uncaught("ValueError")
       ELSE /\ phase' = "login"
            /\ UNCHANGED <<startupError, exitStatus>>
    /\ UNCHANGED <<coreVars, call, result, token, isReady, readies, syncing,
                   poller_task, alive, bornClosing, dbOpen, interactions>>

\* bot.run(config.discord_token): the login with the token
login(outcome) ==
    /\ phase = "login"
    /\ IF outcome = "ok"
       THEN /\ phase' = "setup_hook"
            /\ UNCHANGED <<startupError, exitStatus>>
       ELSE main_except("LoginFailure")
    /\ UNCHANGED <<coreVars, call, result, token, isReady, readies, syncing,
                   poller_task, alive, bornClosing, dbOpen, interactions>>

\* setup_hook: await self.db.connect()
setup_hook(outcome) ==
    /\ phase = "setup_hook"
    /\ IF outcome = "ok"
       THEN /\ phase' = "running"
            /\ dbOpen' = TRUE
            /\ UNCHANGED <<startupError, exitStatus>>
       ELSE /\ main_except("ConnectError")
            /\ UNCHANGED dbOpen
    /\ UNCHANGED <<coreVars, call, result, token, isReady, readies, syncing,
                   poller_task, alive, bornClosing, interactions>>

\* the gateway reports READY (first connection or reconnection): the ready
\* event is set and on_ready runs up to await self.tree.sync()
ready_event ==
    /\ phase = "running"
    /\ readies < MaxReady
    /\ isReady' = TRUE
    /\ readies' = readies + 1
    /\ syncing' = syncing + 1
    /\ UNCHANGED <<coreVars, call, result, phase, token, startupError, exitStatus,
                   poller_task, alive, bornClosing, dbOpen, interactions>>

\* a task that has returned, raised or been cancelled
TaskDone == {"cancelled", "done"}

\* mutant: on_ready creates a poll task whatever the handle says
no_running_task_Always(task, p) == TRUE

\* line 287: not self.poller_task or self.poller_task.done()
no_running_task(task, p) == task = "None" \/ p \in TaskDone

\* on_ready after tree.sync(): lines 285-289
on_ready(outcome) ==
    /\ syncing > 0
    /\ phase \in {"running", "closing", "closed"}
    /\ syncing' = syncing - 1
    /\ IF outcome = "ok" /\ no_running_task(poller_task, pc)
       THEN /\ poller_task' = "Task"
            /\ alive' = alive + 1
            /\ bornClosing' = (phase # "running")
            /\ pc' = "start"
            /\ attempt' = 1
            /\ waits' = <<>>
            /\ lastResp' = "none"
            /\ fetchResult' = "none"
            /\ pollError' = "none"
            /\ pending' = 0
            /\ bounty' = NoBounty
            /\ guilds' = <<>>
            /\ gi' = 1
            /\ atMark' = <<"", {}>>
            /\ lastExam' = <<"none", "">>
            /\ lastEval' = <<"", "none">>
       ELSE UNCHANGED <<poller_task, alive, bornClosing, pollVars, atMark, lastExam>>
    /\ UNCHANGED <<storeVars, histVars, call, result, phase, token, startupError,
                   exitStatus, isReady, readies, dbOpen, interactions>>

\* the first step of poll_bounties: wait_until_ready, then the loop condition
poll_start ==
    /\ pc = "start"
    /\ isReady
    /\ pc' = IF is_closed THEN "done" ELSE "fetch"
    /\ alive' = IF is_closed THEN alive - 1 ELSE alive
    /\ UNCHANGED <<storeVars, fetchVars, pending, bounty, pollError, fanoutVars,
                   atMark, lastExam, histVars, call, result, phase, token,
                   startupError, exitStatus, isReady, readies, syncing, poller_task,
                   bornClosing, dbOpen, interactions>>

\* the loop condition after the sleep in a closed client: poll_bounties returns
poll_exit ==
    /\ pc = "sleep"
    /\ is_closed
    /\ pc' = "done"
    /\ alive' = alive - 1
    /\ UNCHANGED <<storeVars, fetchVars, pending, bounty, pollError, fanoutVars,
                   atMark, lastExam, histVars, call, result, phase, token,
                   startupError, exitStatus, isReady, readies, syncing, poller_task,
                   bornClosing, dbOpen, interactions>>

\* mutant: the cancellation does not reach the task
cancel_Ignored(p) == p

\* Task.cancel(): CancelledError is raised at the await the task stands at and
\* no except Exception clause catches it
cancel(p) == IF p \in TaskDone \cup {"none"} THEN p ELSE "cancelled"

\* the poll tasks that remain when the task at p goes to q
alive_after(p, q) ==
    IF q \in TaskDone /\ p \notin TaskDone \cup {"none"} THEN alive - 1 ELSE alive

\* close, lines 293-295: cancel the poll task, close the connection
close_begin ==
    /\ phase = "running"
    /\ phase' = "closing"
    /\ pc' = IF poller_task = "Task" THEN cancel(pc) ELSE pc
    /\ alive' = alive_after(pc, pc')
    /\ dbOpen' = FALSE
    /\ UNCHANGED <<storeVars, fetchVars, pending, bounty, pollError, fanoutVars,
                   atMark, lastExam, histVars, call, result, token, startupError,
                   exitStatus, isReady, readies, syncing, poller_task, bornClosing,
                   interactions>>

\* close, line 296: await super().close()
close_end ==
    /\ phase = "closing"
    /\ phase' = "closed"
    /\ UNCHANGED <<coreVars, call, result, token, startupError, exitStatus, isReady,
                   readies, syncing, poller_task, alive, bornClosing, dbOpen,
                   interactions>>

\* bot.run returns: the event loop cancels what is left and the script ends
process_exit ==
    /\ phase = "closed"
    /\ phase' = "exited"
    /\ exitStatus' = 0
    /\ syncing' = 0
    /\ pc' = cancel(pc)
    /\ alive' = alive_after(pc, pc')
    /\ UNCHANGED <<storeVars, fetchVars, pending, bounty, pollError, fanoutVars,
                   atMark, lastExam, histVars, call, result, token, startupError,
                   isReady, readies, poller_task, bornClosing, dbOpen, interactions>>

NextLife ==
    \/ from_env
    \/ \E outcome \in {"ok", "LoginFailure"} : login(outcome)
    \/ \E outcome \in StoreOutcomes : setup_hook(outcome)
    \/ ready_event
    \/ \E outcome \in {"ok", "error"} : on_ready(outcome)
    \/ poll_start
    \/ poll_exit
    \/ PollTask
    \/ close_begin
    \/ close_end
    \/ process_exit

SpecLife == InitLife /\ [][NextLife]_vars

(* ---------------------------------------------------------------------- *)
(* subscribe invocations that run concurrently, step by step               *)
(* ---------------------------------------------------------------------- *)
Slots == 1..MaxCmds

\* mutant: the handler goes on without a channel
channel_missing_Never(channel_id) == FALSE

\* line 449: if not channel_id
channel_missing(channel_id) == channel_id = "None"

\* mutant: subscribe does not look the channel up
subscribe_get_channel_Unchecked(i, g, k) ==
    /\ interactions[i] = Idle
    /\ LET invoked == [op |-> "subscribe", g |-> g, k |-> k,
                       wasNew |-> (subscriptions[<<g, k>>] = 0),
                       sawTrue |-> FALSE,
                       calledAdd |-> FALSE, added |-> <<>>]
       IN interactions' =
            [interactions EXCEPT ![i] =
                invoked @@ [at |-> "add_subscription", response |-> "none"]]
    /\ UNCHANGED <<coreVars, call, result, lifeVars>>

\* subscribe up to its first answer from the store, lines 448-454: the channel
\* lookup, and the response when there is none
subscribe_get_channel(i, g, k) ==
    /\ interactions[i] = Idle
    /\ LET channel_id == get_channel(guild_settings, g)
           invoked == [op |-> "subscribe", g |-> g, k |-> k,
                       wasNew |-> (subscriptions[<<g, k>>] = 0),
                       sawTrue |-> FALSE,
                       calledAdd |-> FALSE, added |-> <<>>]
       IN interactions' =
            [interactions EXCEPT ![i] =
                IF channel_missing(channel_id)
                THEN invoked @@ [at |-> "responded", response |-> "set_channel_first"]
                ELSE invoked @@ [at |-> "add_subscription", response |-> "none"]]
    /\ UNCHANGED <<coreVars, call, result, lifeVars>>

\* the invocation in a slot is a subscribe of guild g to keyword k
SamePair(slot, g, k) == slot # Idle /\ slot.g = g /\ slot.k = k

\* subscribe from line 456 on: add_subscription and the response for its result
subscribe_add_subscription(i) ==
    /\ interactions[i] # Idle
    /\ interactions[i].at = "add_subscription"
    /\ LET g == interactions[i].g
           k == interactions[i].k
           added == add_subscription_added(subscriptions, g, k)
       IN /\ subscriptions' =
                IF added THEN add_subscription(subscriptions, g, k) ELSE subscriptions
          /\ interactions' =
                [j \in Slots |->
                    IF j = i
                    THEN [interactions[i] EXCEPT
                              !.at = "responded",
                              !.calledAdd = TRUE,
                              !.added = <<added>>,
                              !.response = IF added THEN "subscribed"
                                           ELSE "already_subscribed"]
                    ELSE IF added /\ SamePair(interactions[j], g, k)
                    THEN [interactions[j] EXCEPT !.sawTrue = TRUE]
                    ELSE interactions[j]]
    /\ UNCHANGED <<guild_settings, processed_bounties, pollVars, histVars, call,
                   result, lifeVars>>

\* the handler has returned
interaction_done(i) ==
    /\ interactions[i] # Idle
    /\ interactions[i].at = "responded"
    /\ interactions' = [interactions EXCEPT ![i] = Idle]
    /\ UNCHANGED <<coreVars, call, result, lifeVars>>

NextCmd ==
    \/ \E g \in Guilds : setchannel(g, ChannelOf(g))
    \/ \E i \in Slots, g \in Guilds, k \in Keywords : subscribe_get_channel(i, g, k)
    \/ \E i \in Slots : subscribe_add_subscription(i)
    \/ \E i \in Slots : interaction_done(i)

SpecCmd == Init /\ [][NextCmd]_vars

(* ---------------------------------------------------------------------- *)
(* The Database methods called on their own, in any order                  *)
(* ---------------------------------------------------------------------- *)
call_set_channel(g, c) ==
    /\ guild_settings' = set_channel(guild_settings, g, c)
    /\ call' = [fn |-> "set_channel", g |-> g, c |-> c]
    /\ result' = <<"None">>
    /\ UNCHANGED <<subscriptions, processed_bounties, pollVars, histVars, otherVars>>

call_add_subscription(g, k) ==
    /\ LET added == add_subscription_added(subscriptions, g, k) IN
        /\ subscriptions' =
              IF added THEN add_subscription(subscriptions, g, k) ELSE subscriptions
        /\ result' = <<added>>
    /\ call' = [fn |-> "add_subscription", g |-> g, k |-> k]
    /\ UNCHANGED <<guild_settings, processed_bounties, pollVars, histVars, otherVars>>

call_remove_subscription(g, k) ==
    /\ subscriptions' = remove_subscription(subscriptions, g, k)
    /\ call' = [fn |-> "remove_subscription", g |-> g, k |-> k]
    /\ result' = <<"None">>
    /\ UNCHANGED <<guild_settings, processed_bounties, pollVars, histVars, otherVars>>

call_is_bounty_processed(id) ==
    /\ call' = [fn |-> "is_bounty_processed", id |-> id]
    /\ result' = <<is_bounty_processed(processed_bounties, id)>>
    /\ UNCHANGED <<storeVars, pollVars, histVars, otherVars>>

\* mutant: a plain INSERT into a table without a primary key
call_mark_bounty_processed_Insert(id) ==
    /\ processed_bounties' = [processed_bounties EXCEPT ![id] = @ + 1]
    /\ call' = [fn |-> "mark_bounty_processed", id |-> id,
                before |-> processed_bounties[id]]
    /\ result' = <<"None">>
    /\ UNCHANGED <<guild_settings, subscriptions, pollVars, histVars, otherVars>>

\* the call returns None: INSERT OR IGNORE raises nothing for a row that exists
call_mark_bounty_processed(id) ==
    /\ processed_bounties' = mark_bounty_processed(processed_bounties, id)
    /\ call' = [fn |-> "mark_bounty_processed", id |-> id,
                before |-> processed_bounties[id]]
    /\ result' = <<"None">>
    /\ UNCHANGED <<guild_settings, subscriptions, pollVars, histVars, otherVars>>

NextStore ==
    \/ \E g \in Guilds : call_set_channel(g, ChannelOf(g))
    \/ \E g \in Guilds, k \in Keywords : call_add_subscription(g, k)
    \/ \E g \in Guilds, k \in Keywords : call_remove_subscription(g, k)
    \/ \E id \in IDs : call_is_bounty_processed(id)
    \/ \E id \in IDs : call_mark_bounty_processed(id)

SpecStore == Init /\ [][NextStore]_vars

(* ---------------------------------------------------------------------- *)
(* The poll task while administrators move their guilds' channels          *)
(* ---------------------------------------------------------------------- *)
\* a channel of either guild's server other than the one ChannelOf names
OtherChannel == "c3"

\* the channels an administrator of guild g can pass to /setchannel
ChannelsOf(g) == {ChannelOf(g), OtherChannel}

\* the commands of administrators who set and move channels and subscribe to
\* the keyword "e"
CommandsChan ==
    \/ \E g \in Guilds : \E c \in ChannelsOf(g) : setchannel(g, c)
    \/ \E g \in Guilds : subscribe(g, KwE)

NextChan == PollTask \/ CommandsChan

SpecChan == Init /\ [][NextChan]_vars

(* ---------------------------------------------------------------------- *)
(* The poll task on listings that carry display fields                     *)
(* ---------------------------------------------------------------------- *)
NextFields == PollTaskOn(ListingsFields) \/ Commands

SpecFields == Init /\ [][NextFields]_vars

(* ---------------------------------------------------------------------- *)
(* The whole command surface next to the poll task                         *)
(* ---------------------------------------------------------------------- *)
\* /subscriptions: the guild's keywords are read and shown (lines 495-517)
list_subscriptions(g) ==
    /\ call' = [fn |-> "subscriptions"]
    /\ result' = <<get_subscriptions(subscriptions, g)>>
    /\ UNCHANGED <<storeVars, pollVars, histVars, otherVars>>

\* /status: the guild's channel and its keywords are read and shown
\* (lines 519-553)
status(g) ==
    /\ call' = [fn |-> "status"]
    /\ result' = <<get_channel(guild_settings, g),
                   Cardinality(get_subscriptions(subscriptions, g))>>
    /\ UNCHANGED <<storeVars, pollVars, histVars, otherVars>>

\* the guild whose administrators issue commands while the poll task runs
SurfaceGuilds == {"g1"}

\* the five commands of the tree
CommandSurface ==
    \/ \E g \in SurfaceGuilds : setchannel(g, ChannelOf(g))
    \/ \E g \in SurfaceGuilds, k \in Keywords : subscribe(g, k)
    \/ \E g \in SurfaceGuilds, k \in Keywords : unsubscribe(g, k)
    \/ \E g \in SurfaceGuilds : list_subscriptions(g)
    \/ \E g \in SurfaceGuilds : status(g)

NextSurface == PollTask \/ CommandSurface

SpecSurface == Init /\ [][NextSurface]_vars

(* ---------------------------------------------------------------------- *)
(* The three writing commands, subscribe step by step                      *)
(* ---------------------------------------------------------------------- *)
\* administrators of both guilds who use the keyword "e"
NextCmdAll ==
    \/ \E g \in Guilds : setchannel(g, ChannelOf(g))
    \/ \E i \in Slots, g \in Guilds : subscribe_get_channel(i, g, KwE)
    \/ \E i \in Slots : subscribe_add_subscription(i)
    \/ \E i \in Slots : interaction_done(i)
    \/ \E g \in Guilds : unsubscribe(g, KwE)

SpecCmdAll == Init /\ [][NextCmdAll]_vars

(* ---------------------------------------------------------------------- *)
(* Properties                                                              *)
(* ---------------------------------------------------------------------- *)
Pairs == IDs \X Guilds

\* the listing of the universe that carries an id
ListingOf(id) == CHOOSE b \in AllListings : bounty_id_of(b) = id

\* C1: a notification for a listing is sent only after the listing's id is in
\* the processed set: no state has a send logged for an id that is not recorded.
C1_MarkedBeforeSend ==
    \A p \in Pairs : sendLog[p] # <<>> => processed_bounties[p[1]] > 0

C1_Witness ==
    \E p \in Pairs : sendLog[p] # <<>> /\ processed_bounties[p[1]] > 0

\* C2: each listing id is sent to each guild at most once, and no fanout runs
\* for a listing whose id was already recorded when it was examined.
C2_AtMostOnce ==
    /\ \A p \in Pairs : Len(sendLog[p]) <= 1
    /\ pc \in {"guilds", "fanout"} => bounty_id_of(bounty) \notin finished

\* a listing that was sent once has been returned again and was skipped
C2_Witness ==
    \E p \in Pairs : lastExam = <<"skipped", p[1]>> /\ Len(sendLog[p]) = 1

\* C3 as stated: every send of a listing to a guild rests on a keyword the guild
\* already had when the listing's processed record was written.
C3_Original ==
    [][\A p \in Pairs :
         sendLog'[p] # sendLog[p] => (atMark[1] = p[1] /\ p[2] \in atMark[2])]_vars

\* C3 amended: once the process_bounty call that wrote a listing's record has
\* ended, the listing is never sent to any guild again, whatever is subscribed.
C3_NoSendAfterFanout ==
    [][\A p \in Pairs : sendLog'[p] # sendLog[p] => p[1] \notin finished]_vars

\* a guild gained a matching keyword after the record was written, the listing
\* was returned again and skipped, and the guild has received nothing
C3_Witness ==
    \E p \in Pairs :
        /\ lastExam = <<"skipped", p[1]>>
        /\ p[1] \in finished
        /\ atMark[1] = p[1]
        /\ p[2] \notin atMark[2]
        /\ matched(location_of(ListingOf(p[1])), get_subscriptions(subscriptions, p[2]))
        /\ sendLog[p] = <<>>

\* C4: a cycle whose fetch fails marks nothing and sends nothing, leaves the poll
\* task asleep (not ended), and the task's next step is the next cycle's fetch.
C4_FetchFailureNotFatal ==
    [][/\ (pc \in {"fetch", "backoff"} \/ fetchResult' = "error")
            => (processed_bounties' = processed_bounties /\ sendLog' = sendLog)
       /\ fetchResult' = "error" => (pc' = "sleep" /\ pending' = 0)
       /\ fetchResult = "error" => ENABLED poll_sleep
       /\ (fetchResult = "error" /\ pc' # pc)
            => (pc' = "fetch" /\ attempt' = 1 /\ fetchResult' = "none")]_vars

\* a fetch failed after its retries in a cycle that follows earlier deliveries
C4_Witness ==
    /\ pc = "sleep"
    /\ fetchResult = "error"
    /\ pollError = "RetryError"
    /\ \E p \in Pairs : sendLog[p] # <<>>

\* a step of the fanout loop over one row of the snapshot
GuildStep == pc = "fanout" /\ (gi' # gi \/ pc' # pc)

\* C5: when get_subscriptions or the send fails for one guild, nothing reaches
\* the poll loop's handler: the loop goes on with the next row of the snapshot,
\* and after the last row with the next listing of the batch.
C5_TenantErrorContained ==
    [][(GuildStep /\ lastEval'[2] \in {"subs_error", "send_failed"})
         => /\ pollError' = pollError
            /\ pending' = pending
            /\ IF gi < Len(guilds)
               THEN pc' = "fanout" /\ gi' = gi + 1 /\ guilds' = guilds /\ bounty' = bounty
               ELSE pc' = IF pending = 0 THEN "sleep" ELSE "process"]_vars

\* the first guild of a two-row snapshot failed and the loop stands at the second,
\* with another listing of the batch still to come
C5_Witness ==
    /\ pc = "fanout"
    /\ Len(guilds) = 2
    /\ gi = 2
    /\ lastEval = <<guilds[1][1], "subs_error">>
    /\ pending > 0

\* C6 as stated: a store error in the fanout, get_all_guilds included, leaves no
\* listing of the batch unprocessed when the cycle goes to sleep.
C6_Claim ==
    (pc = "sleep" /\ pollError \in {"StoreError:get_all_guilds",
                                    "StoreError:get_subscriptions"})
        => pending = 0

\* C7: when the fetch gives up on transient errors it has made exactly
\* max_retries (3) attempts, never more, its waits are non-decreasing and at
\* most 10s, and the cycle ends asleep with the error caught.
C7_RetryExhaustion ==
    /\ attempt <= 3
    /\ pc = "backoff" => attempt < 3
    /\ pollError = "RetryError" =>
         /\ pc = "sleep"
         /\ fetchResult = "error"
         /\ attempt = 3
         /\ Len(waits) = 2
         /\ \A i \in 1..Len(waits) :
              /\ waits[i] <= 10
              /\ i > 1 => waits[i - 1] <= waits[i]

C7_Witness ==
    /\ pollError = "RetryError"
    /\ lastResp = "TimeoutError"
    /\ attempt = max_retries
    /\ Len(waits) = max_retries - 1

\* C8 as stated: a 200 answer with a malformed body ends the fetch at once with
\* an empty result and no exception in the poll loop.
C8_Claim ==
    lastResp \in {"200_content_type", "200_bad_json"}
        => (pc = "sleep" /\ fetchResult = "ok" /\ pending = 0 /\ pollError = "none")

\* C9 as stated: 401 and other non-200 statuses end the fetch with an empty
\* result and no error, 429 is retried while attempts remain, and nothing but a
\* network error, a timeout or a 429 is ever retried.
C9_Claim ==
    /\ lastResp \in {"401", "500"}
         => (pc = "sleep" /\ fetchResult = "ok" /\ pending = 0 /\ pollError = "none")
    /\ lastResp = "429"
         => \/ pc = "backoff" /\ attempt < max_retries
            \/ pc = "fetch" /\ attempt > 1
            \/ pc = "sleep" /\ attempt = max_retries /\ pollError = "RetryError"
    /\ pc = "backoff" => lastResp \in {"429", "ClientError", "TimeoutError"}

\* case-insensitive containment for the strings of the universe, written out
MatchTable == {<<Remote, KwREM>>, <<Remote, KwE>>, <<Berlin, KwE>>}

\* C10: a guild of the snapshot whose keywords were read gets exactly one send,
\* to the snapshot's channel, if one of its keywords matches the location, and
\* none otherwise; either way the loop goes on with the next row.
C10_FanoutMatch ==
    [][(GuildStep /\ lastEval'[2] # "subs_error")
         => LET g == guilds[gi][1]
                c == guilds[gi][2]
                p == <<bounty_id_of(bounty), g>>
                hit == \E k \in Keywords :
                          /\ subscriptions[<<g, k>>] > 0
                          /\ <<location_of(bounty), k>> \in MatchTable
            IN /\ hit => sendLog'[p] = <<c>>
               /\ ~hit => sendLog'[p] = <<>>
               /\ \A q \in Pairs \ {p} : sendLog'[q] = sendLog[q]
               /\ gi < Len(guilds) => (pc' = "fanout" /\ gi' = gi + 1)]_vars

\* in the fanout of listing "a" a guild holding two matching keywords got one
\* send and the guild evaluated after it, with no match, got none
C10_Witness ==
    \E g \in Guilds, h \in Guilds :
        /\ g # h
        /\ lastExam = <<"marked", "a">>
        /\ get_subscriptions(subscriptions, g) = Keywords
        /\ sendLog[<<"a", g>>] = <<ChannelOf(g)>>
        /\ lastEval = <<h, "no_match">>
        /\ sendLog[<<"a", h>>] = <<>>

\* pairs (lower-case letter, upper-case letter)
CasePairs ==
    {<<"a", "A">>, <<"b", "B">>, <<"c", "C">>, <<"e", "E">>, <<"f", "F">>,
     <<"m", "M">>, <<"r", "R">>, <<"s", "S">>}

SameIgnoringCase(c, d) ==
    c = d \/ <<c, d>> \in CasePairs \/ <<d, c>> \in CasePairs

\* keyword stands in location from position off + 1 on, case ignored
OccursAt(location, keyword, off) ==
    /\ off + Len(keyword) <= Len(location)
    /\ \A i \in 1..Len(keyword) : SameIgnoringCase(location[off + i], keyword[i])

\* C11: matches_location(location, keyword) is true exactly when the keyword
\* occurs in the location as a contiguous run of characters, case ignored and
\* nothing trimmed: the empty keyword matches every location, "san francisco"
\* matches "San Francisco, CA", and "Berlin" does not match "Remote".
C11_Matches ==
    (call.fn = "matches_location" /\ result # <<>>) =>
        /\ result[1] = (\E off \in 0..Len(call.location) :
                            OccursAt(call.location, call.keyword, off))
        /\ call.keyword = <<>> => result[1]
        /\ (call.location = SanFranciscoCA /\ call.keyword = KwSanFrancisco)
               => result[1]
        /\ (call.location = Remote /\ call.keyword = Berlin) => ~result[1]

\* a keyword that occurs after the first character and only when case is ignored
C11_Witness ==
    /\ call = [fn |-> "matches_location", location |-> <<"b", "A", " ">>,
               keyword |-> <<"a", " ">>]
    /\ result = <<TRUE>>

\* the first of the probed keys that the object has, 0 when it has none
FirstKey(entries) ==
    IF \E i \in 1..Len(ProbeKeys) : ProbeKeys[i] \in DOMAIN entries
    THEN CHOOSE i \in 1..Len(ProbeKeys) :
            /\ ProbeKeys[i] \in DOMAIN entries
            /\ \A j \in 1..(i - 1) : ProbeKeys[j] \notin DOMAIN entries
    ELSE 0

\* C12: for every decoded 200 body the value returned is a sequence: a list
\* body is returned as it is, an object yields the value under the first of
\* bounties, data, results, items that it has, any other body yields the empty
\* list; a bare list and the same list under "data" give the same result.
C12_Claim ==
    (call.fn = "normalize" /\ result # <<>>) =>
        /\ result[1].type = "list"
        /\ call.data.type = "list" => result[1] = call.data
        /\ (call.data.type = "dict" /\ FirstKey(call.data.entries) # 0) =>
               result[1] = call.data.entries[ProbeKeys[FirstKey(call.data.entries)]]
        /\ (call.data.type = "dict" /\ FirstKey(call.data.entries) = 0) =>
               result[1] = JsonList(<<>>)
        /\ call.data.type \notin {"list", "dict"} => result[1] = JsonList(<<>>)
        /\ (call.data.type = "dict" /\ DOMAIN call.data.entries = {"data"}
            /\ call.data.entries["data"].type = "list") =>
               result[1] = normalize(call.data.entries["data"])

\* the listing has no id: the field is absent, null, or empty
NoId(b) == "id" \notin DOMAIN b \/ b.id = PyNone \/ b.id = ""

\* C13: a listing with no id (absent, null or empty) is discarded: no
\* process_bounty call goes past the id test with it, nothing is recorded
\* as processed for it and nothing is sent for it.
C13_Claim ==
    /\ bounty \in AllListings => ~NoId(bounty)
    /\ \A b \in ListingsNoId :
          bounty_id_of(b) # "" =>
              /\ processed_bounties[bounty_id_of(b)] = 0
              /\ \A g \in Guilds : sendLog[<<bounty_id_of(b), g>>] = <<>>

\* C14: whatever ready events occur, also while earlier on_ready handlers still
\* wait in tree.sync(), no fetch is issued before the client is ready, at most
\* one poll task is alive, and a poll task is created only when none exists or
\* the previous one has finished.
C14_OnePollTask ==
    [][/\ alive' <= 1
       /\ alive' > alive => (alive = 0 /\ (poller_task = "None" \/ pc \in TaskDone))
       /\ (\E r \in Responses : fetch_bounties(r)) => isReady]_vars

\* two on_ready handlers have returned and one poll task is in its loop
C14_Witness ==
    /\ readies >= 2
    /\ syncing = 0
    /\ phase = "running"
    /\ alive = 1
    /\ pc = "sleep"

\* close has been called
closeRequested == phase \in {"closing", "closed"} \/ (phase = "exited" /\ startupError = "none")

HasChannel(g) == \E n \in 1..Len(guild_settings) : guild_settings[n][1] = g

\* C16: a subscribe command for a guild that has no channel set is answered
\* with the set-a-channel-first response, does not call add_subscription, and
\* leaves the subscriptions unchanged.
C16_NoChannelRejected ==
    [][\A i \in Slots :
          (interactions[i] = Idle /\ interactions'[i] # Idle
           /\ ~HasChannel(interactions'[i].g)) =>
              /\ interactions'[i].response = "set_channel_first"
              /\ interactions'[i].at = "responded"
              /\ ~interactions'[i].calledAdd
              /\ subscriptions' = subscriptions]_vars

\* a rejected subscribe of a guild that has no channel, next to a stored
\* subscription of the other guild
C16_Witness ==
    \E i \in Slots :
        /\ interactions[i] # Idle
        /\ interactions[i].response = "set_channel_first"
        /\ ~interactions[i].calledAdd
        /\ ~HasChannel(interactions[i].g)
        /\ \E sp \in Guilds \X Keywords : subscriptions[sp] > 0

\* the add_subscription call of slot i has returned
Returned(ints, i) == ints[i] # Idle /\ ints[i].added # <<>>

\* C17: add_subscription returns true exactly when the pair had no row before
\* the call, and false exactly when it had one, the table then being left as
\* it was; no pair ever has two rows; and of subscribe commands in progress
\* together for one pair that was new, exactly one gets true: each of them
\* either gets true itself or ran next to the one that did.
C17_AddSubscription ==
    [][/\ \A sp \in Guilds \X Keywords : subscriptions'[sp] <= 1
       /\ \A i \in Slots :
            (~Returned(interactions, i) /\ Returned(interactions', i)) =>
                LET sp == <<interactions[i].g, interactions[i].k>> IN
                /\ interactions'[i].added = <<subscriptions[sp] = 0>>
                /\ subscriptions[sp] > 0 => subscriptions' = subscriptions
                /\ subscriptions[sp] = 0 =>
                       subscriptions' = [subscriptions EXCEPT ![sp] = 1]
       /\ \A i \in Slots :
            (Returned(interactions', i) /\ interactions'[i].wasNew) =>
                (interactions'[i].added = <<TRUE>>) # interactions'[i].sawTrue
       /\ \A i, j \in Slots :
            (/\ i # j
             /\ Returned(interactions', i)
             /\ Returned(interactions', j)
             /\ interactions'[i].g = interactions'[j].g
             /\ interactions'[i].k = interactions'[j].k) =>
                ~(interactions'[i].added = <<TRUE>> /\ interactions'[j].added = <<TRUE>>)]_vars

\* two subscribe commands for the same new pair have both returned
C17_Witness ==
    \E i, j \in Slots :
        /\ Returned(interactions, i)
        /\ Returned(interactions, j)
        /\ interactions[i].g = interactions[j].g
        /\ interactions[i].k = interactions[j].k
        /\ interactions[i].wasNew /\ interactions[j].wasNew
        /\ interactions[i].added = <<TRUE>>
        /\ interactions[j].added = <<FALSE>>
        /\ subscriptions[<<interactions[i].g, interactions[i].k>>] = 1

\* C18: mark_bounty_processed is idempotent: called for an id that is already
\* recorded it raises nothing and leaves the table as it was; after any number
\* of calls the table holds the id exactly once and is_bounty_processed(id) is
\* true; no other id is touched.
C18_MarkIdempotent ==
    [][call'.fn = "mark_bounty_processed" =>
          LET id == call'.id IN
          /\ result' = <<"None">>
          /\ processed_bounties[id] > 0 => processed_bounties' = processed_bounties
          /\ processed_bounties'[id] = 1
          /\ is_bounty_processed(processed_bounties', id)
          /\ \A other \in IDs \ {id} :
                processed_bounties'[other] = processed_bounties[other]]_vars

\* mark_bounty_processed has been called for an id that was already recorded
C18_Witness ==
    /\ call.fn = "mark_bounty_processed"
    /\ call.before = 1
    /\ processed_bounties[call.id] = 1
    /\ result = <<"None">>

\* C19: every error that ends the start of the process (no token, a failed
\* login, a failed connection to the store) ends it with a non-zero exit
\* status, and no poll task was started before.
C19_Claim ==
    (phase = "exited" /\ startupError # "none") =>
        /\ exitStatus \notin {-1, 0}
        /\ poller_task = "None"
        /\ pc = "none"

\* C20: the waits between the attempts of one fetch start at 2 seconds and
\* double up to the cap of 10 seconds: the first wait is 2 and every later one
\* is the smaller of 10 and twice the wait before it.
C20_Claim ==
    \A n \in 1..Len(waits) :
        waits[n] = IF n = 1 THEN 2 ELSE Min(10, 2 * waits[n - 1])


\* C21: the rows a fanout iterates are read once, after the listing's id is in
\* the processed set, and are the guild_settings rows of that moment; while the
\* fanout runs no step changes them, whatever /setchannel commands interleave;
\* every send of the listing goes to a guild of those rows, on the channel the
\* row carries, so a guild whose first row is written later gets nothing for
\* this listing; the snapshot of the next listing is again the current table.
C21_SnapshotOnce ==
    [][/\ (pc = "guilds" /\ pc' = "fanout")
            => /\ processed_bounties[bounty_id_of(bounty)] > 0
               /\ guilds' = guild_settings
               /\ bounty' = bounty
       /\ (pc = "fanout" /\ pc' = "fanout")
            => (guilds' = guilds /\ bounty' = bounty)
       /\ pc' = "fanout" => pc \in {"guilds", "fanout"}
       /\ \A p \in Pairs :
            sendLog'[p] # sendLog[p]
               => /\ pc = "fanout"
                  /\ p[1] = bounty_id_of(bounty)
                  /\ guilds[gi][1] = p[2]
                  /\ sendLog'[p] = Append(sendLog[p], guilds[gi][2])]_vars

\* in one fanout the first row's guild was sent the listing on the channel of
\* its row although the guild's channel is another by now, and the second
\* row's guild, whose turn is next, has moved its channel as well
C21_Witness ==
    /\ pc = "fanout"
    /\ Len(guilds) = 2
    /\ gi = 2
    /\ sendLog[<<bounty_id_of(bounty), guilds[1][1]>>] = <<guilds[1][2]>>
    /\ get_channel(guild_settings, guilds[1][1]) # guilds[1][2]
    /\ get_channel(guild_settings, guilds[2][1]) # guilds[2][2]


\* C22: a listing without a location is matched as "Remote", and only the
\* location decides the delivery: a guild whose keywords were read is handed
\* the listing (the sink is called, and accepts or refuses) exactly if one of
\* its keywords occurs in the location, whatever title, description and skills
\* the listing has.
C22_Claim ==
    [][(GuildStep /\ lastEval'[2] # "subs_error")
         => LET g == guilds[gi][1]
                location == IF "location" \in DOMAIN bounty
                            THEN bounty.location ELSE Remote
                hit == \E k \in Keywords :
                          /\ subscriptions[<<g, k>>] > 0
                          /\ <<location, k>> \in MatchTable
            IN /\ hit <=> lastEval'[2] \in {"sent", "send_failed"}
               /\ ~hit <=> lastEval'[2] = "no_match"]_vars


\* C23: the processed table only grows, and only the poll task writes it: no
\* step takes a row of it away; a step that changes it is the dedup step of
\* process_bounty for the listing it records, never a command (/setchannel,
\* /subscribe, /unsubscribe, /subscriptions, /status, which leave the poll
\* task where it is); and a step that changes guild_settings or subscriptions
\* is no step of the poll task.
C23_SingleWriter ==
    [][/\ \A id \in IDs : processed_bounties'[id] >= processed_bounties[id]
       /\ processed_bounties' # processed_bounties
            => /\ pc = "process"
               /\ lastExam'[1] \in {"marked", "error"}
               /\ processed_bounties' =
                     [processed_bounties EXCEPT ![lastExam'[2]] = 1]
       /\ (call' # call \/ result' # result)
            => (processed_bounties' = processed_bounties /\ pc' = pc)
       /\ (guild_settings' # guild_settings \/ subscriptions' # subscriptions)
            => /\ processed_bounties' = processed_bounties
               /\ UNCHANGED <<pollVars, histVars>>
       /\ (pc' # pc \/ pending' # pending \/ gi' # gi \/ attempt' # attempt)
            => (guild_settings' = guild_settings
                /\ subscriptions' = subscriptions)]_vars

\* both listings are recorded and the first was sent to the guild, whose
\* keyword "e" was removed again since; /status has just shown the guild's
\* channel and its one keyword
C23_Witness ==
    /\ processed_bounties["a"] > 0
    /\ processed_bounties["b"] > 0
    /\ sendLog[<<"a", "g1">>] # <<>>
    /\ get_subscriptions(subscriptions, "g1") = {KwREM}
    /\ sendLog[<<"b", "g1">>] # <<>>
    /\ call = [fn |-> "status"]
    /\ result = <<ChannelOf("g1"), 1>>


\* C24: whatever way /setchannel, /subscribe (between its channel lookup and
\* its insert) and /unsubscribe interleave, a guild that has a row in
\* subscriptions has a row in guild_settings; a guild that has a channel keeps
\* having one, and a subscribe that found no channel stores nothing.
C24_SubscribedHasChannel ==
    /\ [](\A g \in Guilds :
            (\E k \in Keywords : subscriptions[<<g, k>>] > 0) => HasChannel(g))
    /\ [][/\ \A g \in Guilds : HasChannel(g) => HasChannel(g)'
          /\ \A g \in Guilds, k \in Keywords :
                (~HasChannel(g) /\ ~HasChannel(g)')
                    => subscriptions'[<<g, k>>] = subscriptions[<<g, k>>]]_vars

\* a guild that was told to set a channel first has set one and holds the
\* keyword now, while the other guild has unsubscribed in the middle of a
\* subscribe of its own that stands between its lookup and its insert
C24_Witness ==
    \E g \in Guilds, h \in Guilds, i \in Slots, j \in Slots :
        /\ g # h
        /\ HasChannel(g)
        /\ get_subscriptions(subscriptions, g) = {}
        /\ interactions[i] # Idle
        /\ interactions[i].g = g
        /\ ~interactions[i].wasNew
        /\ interactions[i].at = "add_subscription"
        /\ HasChannel(h)
        /\ get_subscriptions(subscriptions, h) = {KwE}
        /\ interactions[j] # Idle
        /\ interactions[j].g = h
        /\ interactions[j].response = "set_channel_first"


\* C25 as stated: when is_bounty_processed or mark_bounty_processed raises for
\* a listing, the failed call leaves the processed table as it was (the id is
\* not recorded by it), nothing is sent, and the cycle ends, so that a later
\* cycle finds the listing unprocessed.
C25_Claim ==
    [][(pc = "process" /\ lastExam'[1] = "error")
         => /\ processed_bounties' = processed_bounties
            /\ sendLog' = sendLog
            /\ pc' = "sleep"]_vars

====
